---- MODULE Spec2Model ----
(***************************************************************************)
(* Model of y_branch_opt_2D.py: the geometry function splitter and the     *)
(* linear driver around it (load previous parameters, build the objects,   *)
(* run the optimization, save the parameters, export the geometry).        *)
(*                                                                         *)
(* Lengths are integers in units of 1/9900 um, the coarsest grid on which  *)
(* every coordinate the script computes is exact: 1.0e-6 is 9900, 0.01e-6  *)
(* is 99, the knot spacing 2/9 um is 2200, the sample spacing 2.02/99 um   *)
(* is 202, 0.25e-6 is 2475, 0.6e-6 is 5940, and the bounds 0.2e-6 and      *)
(* 0.8e-6 are 1980 and 7920.                                               *)
(***************************************************************************)
EXTENDS Integers, Sequences, FiniteSets

(***************************************************************************)
(* Program constants.                                                      *)
(***************************************************************************)
\* np.linspace(-1.0e-6, 1.0e-6, 10): start, stop and number of knots
XStart == -9900
XStop == 9900
NumParams == 10
\* np.linspace(0.25e-6, 0.6e-6, initial_points_x.size)
YStart == 2475
YStop == 5940
\* the 0.01e-6 by which the two set points lie outside the knots
SetPointOffset == 99
n_interpolation_points == 100
\* bounds = [(0.2e-6, 0.8e-6)] * initial_points_y.size
LowerBound == 1980
UpperBound == 7920

(***************************************************************************)
(* Bounds of the model.                                                    *)
(***************************************************************************)
\* the longest parameters file the model starts from, in tokens
MaxFileLen == 11
\* the number of iterations the engine makes in one run
MaxIter == 2
\* the number of consecutive runs of the script
MaxRuns == 2

(***************************************************************************)
(* numpy helpers.                                                          *)
(***************************************************************************)
Range(s) == {s[i] : i \in DOMAIN s}

Min(s) == CHOOSE m \in Range(s) : \A e \in Range(s) : m <= e

Max(s) == CHOOSE m \in Range(s) : \A e \in Range(s) : m >= e

\* np.linspace(start, stop, num): num evenly spaced points, both ends included
linspace(start, stop, num) ==
    [i \in 1..num |-> start + ((i - 1) * (stop - start)) \div (num - 1)]

\* s[::-1]
Reverse(s) == [i \in 1..Len(s) |-> s[Len(s) + 1 - i]]

(***************************************************************************)
(* State.                                                                  *)
(***************************************************************************)
VARIABLES
    pc,                 \* the statement of the script that runs next
    fs,                 \* 2D_parameters.txt in each directory the script can touch
    cwd,                \* the process's working directory
    initial_points_x,   \* module-level array, line 47
    initial_points_y,   \* module-level array, line 48
    prev_results,       \* the initial parameters, lines 74-78
    printed,            \* notices printed by the except branch
    read_file,          \* what 2D_parameters.txt held when it was read
    best_params,        \* the engine's best iterate so far
    iter,               \* iterations made by the engine
    results,            \* results[1], the parameter vector opt.run() returned
    steps,              \* the steps of this run that have completed, in order
    failed_at,          \* the step an uncaught exception left, or "none"
    wrote,              \* this run has written the parameters file
    write_dir,          \* the directory this run wrote it to
    export_started,     \* this run has entered the export block
    last_call,          \* the latest call of splitter
    remembered,         \* some earlier call of splitter
    others_between,     \* a call with another argument came after the remembered one
    run_no,             \* the number of this run
    prev_ok,            \* the previous run ran to its end
    prev_best,          \* the vector the previous run saved
    prev_write_dir      \* the directory the previous run saved it to

vars == <<pc, fs, cwd, initial_points_x, initial_points_y, prev_results, printed,
          read_file, best_params, iter, results, steps, failed_at,
          wrote, write_dir, export_started, last_call, remembered,
          others_between, run_no, prev_ok, prev_best, prev_write_dir>>

(***************************************************************************)
(* The geometry function, lines 49-68.                                     *)
(***************************************************************************)
\* line 53: the ten knots and one set point outside each end
points_x ==
    <<Min(initial_points_x) - SetPointOffset>> \o initial_points_x
        \o <<Max(initial_points_x) + SetPointOffset>>

\* line 54: the parameters between the two fixed end values
points_y(params) ==
    <<Min(initial_points_y)>> \o params \o <<Max(initial_points_y)>>

\* line 60 sampling past the set points: the mutant of polygon_points_x
polygon_points_x_overshoot ==
    linspace(Min(points_x) - SetPointOffset, Max(points_x) + SetPointOffset,
             n_interpolation_points)

\* line 60
polygon_points_x ==
    linspace(Min(points_x), Max(points_x), n_interpolation_points)

\* interp1d's constructor raises ValueError when x and y differ in length
interp1d_raises(xs, ys) == Len(xs) # Len(ys)

\* calling the interpolator outside [xs[0], xs[-1]] raises ValueError
\* (bounds_error is on by default)
out_of_range(xs, x) == x < xs[1] \/ x > xs[Len(xs)]

\* the knot interval that holds x
segment(xs, x) ==
    CHOOSE k \in 1..(Len(xs) - 1) :
        /\ xs[k] <= x
        /\ k = Len(xs) - 1 \/ x < xs[k + 1]

(***************************************************************************)
(* The value interp1d(xs, ys, kind = 'cubic') returns at x. scipy's spline *)
(* is library code outside the repository, and its exact values are        *)
(* rationals far beyond TLC's integers. The model keeps what the script    *)
(* relies on: one value per sampled x, a function of the knots and x       *)
(* alone, equal to ys[k] at the knot xs[k]; between two knots it takes the *)
(* chord, rounded down to the grid. The properties checked below read the  *)
(* values between the knots only for their sign.                           *)
(***************************************************************************)
interpolator(xs, ys, x) ==
    LET k == segment(xs, x)
    IN  ys[k] + ((ys[k + 1] - ys[k]) * (x - xs[k])) \div (xs[k + 1] - xs[k])

\* line 62
polygon_points_y(xs, ys, at) ==
    [j \in 1..Len(at) |-> interpolator(xs, ys, at[j])]

\* line 65
polygon_points_up(x, y) == [j \in 1..Len(x) |-> <<x[j], y[j]>>]

\* line 66 without the reflection: the mutant of polygon_points_down
polygon_points_down_unreflected(x, y) == [j \in 1..Len(x) |-> <<x[j], y[j]>>]

\* line 66
polygon_points_down(x, y) == [j \in 1..Len(x) |-> <<x[j], 0 - y[j]>>]

\* line 67 dropping the vertex the two branches share in x: a mutant of polygon_points
polygon_points_dedup(up, down) == Reverse(up) \o Tail(down)

\* line 67 without the reversal: a mutant of polygon_points
polygon_points_unreversed(up, down) == up \o down

\* line 67
polygon_points(up, down) == Reverse(up) \o down

\* What one call computes: the exception it raises ("none" when it returns), the
\* knots, the sampled x positions and the returned vertices.
splitter_result(params) ==
    LET px == points_x
        py == points_y(params)
        at == polygon_points_x
    IN  IF interp1d_raises(px, py)
        THEN [raised |-> "length", points_x |-> px, points_y |-> py,
              polygon_points_x |-> at, polygon_points |-> <<>>]
        ELSE IF \E j \in 1..Len(at) : out_of_range(px, at[j])
        THEN [raised |-> "range", points_x |-> px, points_y |-> py,
              polygon_points_x |-> at, polygon_points |-> <<>>]
        ELSE LET y == polygon_points_y(px, py, at)
             IN  [raised |-> "none", points_x |-> px, points_y |-> py,
                  polygon_points_x |-> at,
                  polygon_points |->
                      polygon_points(polygon_points_up(at, y),
                                     polygon_points_down(at, y))]

\* splitter storing its argument in the module-level array: the mutant of splitter
splitter_inplace(params) ==
    [ret |-> splitter_result(params),
     params |-> params,
     initial_points_x |-> initial_points_x,
     initial_points_y |->
         IF Len(params) = Len(initial_points_y) THEN params ELSE initial_points_y]

\* One call of splitter: what it returns, and its argument and the two module-level
\* arrays as the call leaves them. The body assigns only to locals and builds new
\* arrays (np.concatenate, np.linspace, np.array), so all three are left as they were.
splitter(params) ==
    [ret |-> splitter_result(params),
     params |-> params,
     initial_points_x |-> initial_points_x,
     initial_points_y |-> initial_points_y]

(***************************************************************************)
(* Files. A parameters file is a column of whitespace-separated tokens;    *)
(* a token either parses as a float or does not.                           *)
(***************************************************************************)
Num(v) == [num |-> TRUE, val |-> v]

Junk == [num |-> FALSE, val |-> 0]

AbsentFile == [exists |-> FALSE, tokens |-> <<>>]

File(tokens) == [exists |-> TRUE, tokens |-> tokens]

\* np.loadtxt(path): raises when the file cannot be opened (OSError) or a token is
\* no float (ValueError); otherwise returns the floats, none for an empty file
\* (numpy only warns that the input contained no data).
loadtxt(file) ==
    IF ~file.exists \/ \E i \in 1..Len(file.tokens) : ~file.tokens[i].num
    THEN [raised |-> TRUE, array |-> <<>>]
    ELSE [raised |-> FALSE,
          array |-> [i \in 1..Len(file.tokens) |-> file.tokens[i].val]]

\* np.savetxt writing one significant digit of a micron: the mutant of savetxt
savetxt_rounded(array) ==
    File([i \in 1..Len(array) |-> Num((array[i] \div 1000) * 1000)])

\* np.savetxt(path, array): one float per line in the format '%.18e', digits
\* enough for each value to be read back as it was
savetxt(array) == File([i \in 1..Len(array) |-> Num(array[i])])

\* The directories: "launch", where the script is started; "opts", a folder directly
\* below it; "work", a folder elsewhere, directly below "script"; "parent", the
\* directory above "launch".
Dirs == {"launch", "parent", "script"}

\* the directory '..' names from dir
Parent(dir) ==
    CASE dir = "opts" -> "launch"
      [] dir = "work" -> "script"
      [] OTHER -> "parent"

\* line 128: the directory '../2D_parameters.txt' lies in
save_path == Parent(cwd)

\* line 75: the directory '2D_parameters.txt' lies in
load_path == cwd

(***************************************************************************)
(* The inputs the model enumerates.                                        *)
(***************************************************************************)
\* the floats a parameters file may hold: zero, a value within the bounds, the
\* upper bound and a value above it
FileValues == {0, YStart, UpperBound, UpperBound + SetPointOffset}

FileTokens == {Junk} \cup {Num(v) : v \in FileValues}

\* the files 2D_parameters.txt may be when the first run starts: none, an empty
\* one, or up to MaxFileLen tokens that are all 0.6e-6 but the last
InitFiles ==
    {AbsentFile} \cup
    {File([i \in 1..n |-> IF i = n THEN t ELSE Num(YStop)]) :
        n \in 0..MaxFileLen, t \in FileTokens}

\* the iterates the engine may try: vectors of NumParams values within the bounds
\* (L-BFGS-B keeps every iterate within them)
Candidates ==
    {[i \in 1..NumParams |-> IF 2 * i <= NumParams THEN a ELSE b] :
        a \in {LowerBound}, b \in {LowerBound, UpperBound}}

NoCall == [valid |-> FALSE]

\* line 71: one (lower, upper) pair per parameter
bounds == [i \in 1..Len(initial_points_y) |-> <<LowerBound, UpperBound>>]

StepOrder == <<"load", "polygon", "fom", "optimizer", "opt", "run", "save", "export">>

(***************************************************************************)
(* The driver, lines 47-154.                                               *)
(***************************************************************************)
Init ==
    /\ pc = "load"
    /\ fs \in {[d \in Dirs |-> IF d = "launch" THEN f ELSE AbsentFile] : f \in InitFiles}
    /\ cwd = "launch"
    /\ initial_points_x = linspace(XStart, XStop, NumParams)
    /\ initial_points_y = linspace(YStart, YStop, Len(initial_points_x))
    /\ prev_results = <<>>
    /\ printed = 0
    /\ read_file = AbsentFile
    /\ best_params = <<>>
    /\ iter = 0
    /\ results = <<>>
    /\ steps = <<>>
    /\ failed_at = "none"
    /\ wrote = FALSE
    /\ write_dir = "none"
    /\ export_started = FALSE
    /\ last_call = NoCall
    /\ remembered = NoCall
    /\ others_between = FALSE
    /\ run_no = 1
    /\ prev_ok = FALSE
    /\ prev_best = <<>>
    /\ prev_write_dir = "none"

\* A call e = splitter(params) from the driver or from the engine: the module-level
\* arrays become what the call leaves. The records of the calls are kept by the
\* specification of the geometry function below, not by the driver.
Call(e) ==
    /\ initial_points_x' = e.initial_points_x
    /\ initial_points_y' = e.initial_points_y
    /\ UNCHANGED <<last_call, remembered, others_between>>

\* the call e raised an exception
Raised(e) == e.ret.raised # "none"

NoCallMade ==
    UNCHANGED <<last_call, remembered, others_between, initial_points_x,
                initial_points_y>>

\* an uncaught exception leaves the script at step
Abort(step) ==
    /\ pc' = "aborted"
    /\ failed_at' = step
    /\ UNCHANGED steps

Complete(step, next) ==
    /\ pc' = next
    /\ steps' = Append(steps, step)
    /\ UNCHANGED failed_at

\* lines 74-78 without the except branch: a mutant of Load
LoadNoFallback ==
    /\ pc = "load"
    /\ LET r == loadtxt(fs[load_path])
       IN  IF r.raised
           THEN /\ Abort("load")
                /\ UNCHANGED <<prev_results, printed>>
           ELSE /\ prev_results' = r.array
                /\ Complete("load", "polygon")
                /\ UNCHANGED printed
    /\ read_file' = fs[load_path]
    /\ NoCallMade
    /\ UNCHANGED <<fs, cwd, best_params, iter, results, wrote,
                   write_dir, export_started, run_no, prev_ok, prev_best,
                   prev_write_dir>>

\* lines 74-78 with the except branch taking the x positions of the knots: a
\* mutant of Load
LoadFallbackToX ==
    /\ pc = "load"
    /\ LET r == loadtxt(fs[load_path])
       IN  IF r.raised
           THEN /\ prev_results' = initial_points_x
                /\ printed' = printed + 1
           ELSE /\ prev_results' = r.array
                /\ UNCHANGED printed
    /\ read_file' = fs[load_path]
    /\ Complete("load", "polygon")
    /\ NoCallMade
    /\ UNCHANGED <<fs, cwd, best_params, iter, results, wrote,
                   write_dir, export_started, run_no, prev_ok, prev_best,
                   prev_write_dir>>

\* lines 74-78: read the previous parameters, or take the default ones
Load ==
    /\ pc = "load"
    /\ LET r == loadtxt(fs[load_path])
       IN  IF r.raised
           THEN /\ prev_results' = initial_points_y
                /\ printed' = printed + 1
           ELSE /\ prev_results' = r.array
                /\ UNCHANGED printed
    /\ read_file' = fs[load_path]
    /\ Complete("load", "polygon")
    /\ NoCallMade
    /\ UNCHANGED <<fs, cwd, best_params, iter, results, wrote,
                   write_dir, export_started, run_no, prev_ok, prev_best,
                   prev_write_dir>>

\* lines 86-93: FunctionDefinedPolygon(func = splitter, initial_params = prev_results,
\* bounds = bounds, ...). The engine's constructor builds its first polygon from
\* func(initial_params); an exception splitter raises there is not caught.
BuildPolygon ==
    /\ pc = "polygon"
    /\ \E e \in {splitter(prev_results)} :
           /\ Call(e)
           /\ IF Raised(e)
              THEN Abort("polygon")
              ELSE Complete("polygon", "fom")
    /\ UNCHANGED <<fs, cwd, prev_results, printed, read_file,
                   best_params, iter, results, wrote, write_dir, export_started,
                   run_no, prev_ok, prev_best, prev_write_dir>>

\* lines 97-101: ModeMatch(...)
BuildFom ==
    /\ pc = "fom"
    /\ Complete("fom", "optimizer")
    /\ NoCallMade
    /\ UNCHANGED <<fs, cwd, prev_results, printed, read_file,
                   best_params, iter, results, wrote, write_dir, export_started,
                   run_no, prev_ok, prev_best, prev_write_dir>>

\* lines 104-110: ScipyOptimizers(...)
BuildOptimizer ==
    /\ pc = "optimizer"
    /\ Complete("optimizer", "opt")
    /\ NoCallMade
    /\ UNCHANGED <<fs, cwd, prev_results, printed, read_file,
                   best_params, iter, results, wrote, write_dir, export_started,
                   run_no, prev_ok, prev_best, prev_write_dir>>

\* lines 113-128 with the save put before the run: the mutant of BuildOpt
BuildOptThenSave ==
    /\ pc = "opt"
    /\ Complete("opt", "save")
    /\ NoCallMade
    /\ UNCHANGED <<fs, cwd, prev_results, printed, read_file,
                   best_params, iter, results, wrote, write_dir, export_started,
                   run_no, prev_ok, prev_best, prev_write_dir>>

\* lines 113-122: Optimization(...)
BuildOpt ==
    /\ pc = "opt"
    /\ Complete("opt", "run")
    /\ NoCallMade
    /\ UNCHANGED <<fs, cwd, prev_results, printed, read_file,
                   best_params, iter, results, wrote, write_dir, export_started,
                   run_no, prev_ok, prev_best, prev_write_dir>>

\* line 125, opt.run() entered: the engine may move the process into a working
\* folder of its own, which it makes below the current directory or elsewhere (next
\* to the script file, wherever that lies), and evaluates the geometry at the
\* initial parameters.
RunStart ==
    /\ pc = "run"
    /\ cwd' \in {cwd, "opts", "work"}
    /\ \E e \in {splitter(prev_results)} :
           /\ Call(e)
           /\ IF Raised(e)
              THEN /\ Abort("run")
                   /\ UNCHANGED <<best_params, iter>>
              ELSE /\ pc' = "iterating"
                   /\ best_params' = prev_results
                   /\ iter' = 0
                   /\ UNCHANGED <<steps, failed_at>>
    /\ UNCHANGED <<fs, prev_results, printed, read_file, results, wrote, write_dir,
                   export_started, run_no, prev_ok, prev_best,
                   prev_write_dir>>

\* line 125, one iteration inside opt.run(): the engine evaluates the geometry at a
\* new iterate, which becomes the best one or does not
Iterate ==
    /\ pc = "iterating"
    /\ iter < MaxIter
    /\ \E p \in Candidates :
          \E e \in {splitter(p)} :
              /\ Call(e)
              /\ IF Raised(e)
                 THEN /\ Abort("run")
                      /\ UNCHANGED best_params
                 ELSE /\ best_params' \in {best_params, p}
                      /\ UNCHANGED <<pc, steps, failed_at>>
    /\ iter' = iter + 1
    /\ UNCHANGED <<fs, cwd, prev_results, printed, read_file, results, wrote,
                   write_dir, export_started, run_no, prev_ok, prev_best,
                   prev_write_dir>>

\* line 125, opt.run() returns: results[1] is the best parameter vector
RunReturn ==
    /\ pc = "iterating"
    /\ results' = best_params
    /\ Complete("run", "save")
    /\ NoCallMade
    /\ UNCHANGED <<fs, cwd, prev_results, printed, read_file,
                   best_params, iter, wrote, write_dir, export_started,
                   run_no, prev_ok, prev_best, prev_write_dir>>

\* line 128: np.savetxt('../2D_parameters.txt', results[1])
Save ==
    /\ pc = "save"
    /\ fs' = [fs EXCEPT ![save_path] = savetxt(results)]
    /\ wrote' = TRUE
    /\ write_dir' = save_path
    /\ Complete("save", "export")
    /\ NoCallMade
    /\ UNCHANGED <<cwd, prev_results, printed, read_file,
                   best_params, iter, results, export_started, run_no,
                   prev_ok, prev_best, prev_write_dir>>

\* lines 131-154: the export block; line 146 hands splitter(results[1]) to addpoly
Export ==
    /\ pc = "export"
    /\ export_started' = TRUE
    /\ \E e \in {splitter(results)} :
           /\ Call(e)
           /\ IF Raised(e)
              THEN Abort("export")
              ELSE Complete("export", "done")
    /\ UNCHANGED <<fs, cwd, prev_results, printed, read_file,
                   best_params, iter, results, wrote, write_dir, run_no, prev_ok,
                   prev_best, prev_write_dir>>

\* the step the script is in at pc
StepAt(p) == IF p = "iterating" THEN "run" ELSE p

\* An exception raised by the engine, by numpy or by the CAD session in a step after
\* the load, caught and passed over: the mutant of Fail
FailCaught ==
    /\ pc \in {"polygon", "fom", "optimizer", "opt", "run", "iterating", "save", "export"}
    /\ pc' = CASE pc = "polygon" -> "fom"
               [] pc = "fom" -> "optimizer"
               [] pc = "optimizer" -> "opt"
               [] pc = "opt" -> "run"
               [] pc \in {"run", "iterating"} -> "save"
               [] pc = "save" -> "export"
               [] pc = "export" -> "done"
    /\ failed_at' = StepAt(pc)
    /\ export_started' = (export_started \/ pc = "export")
    /\ NoCallMade
    /\ UNCHANGED <<fs, cwd, prev_results, printed, read_file,
                   best_params, iter, results, steps, wrote, write_dir,
                   run_no, prev_ok, prev_best, prev_write_dir>>

\* An exception raised by the engine, by numpy or by the CAD session in a step after
\* the load: no try statement encloses lines 80-154, so the script ends there.
Fail ==
    /\ pc \in {"polygon", "fom", "optimizer", "opt", "run", "iterating", "save", "export"}
    /\ Abort(StepAt(pc))
    /\ export_started' = (export_started \/ pc = "export")
    /\ NoCallMade
    /\ UNCHANGED <<fs, cwd, prev_results, printed, read_file,
                   best_params, iter, results, wrote, write_dir, run_no,
                   prev_ok, prev_best, prev_write_dir>>

\* The script is started again from the directory it was started in before: a new
\* process, which recomputes the module-level arrays and finds the files as the
\* previous run left them.
NextRun ==
    /\ pc \in {"done", "aborted"}
    /\ run_no < MaxRuns
    /\ run_no' = run_no + 1
    /\ prev_ok' = (pc = "done")
    /\ prev_best' = IF pc = "done" THEN results ELSE <<>>
    /\ prev_write_dir' = IF pc = "done" THEN write_dir ELSE "none"
    /\ pc' = "load"
    /\ cwd' = "launch"
    /\ initial_points_x' = linspace(XStart, XStop, NumParams)
    /\ initial_points_y' = linspace(YStart, YStop, Len(initial_points_x'))
    /\ prev_results' = <<>>
    /\ printed' = 0
    /\ read_file' = AbsentFile
    /\ best_params' = <<>>
    /\ iter' = 0
    /\ results' = <<>>
    /\ steps' = <<>>
    /\ failed_at' = "none"
    /\ wrote' = FALSE
    /\ write_dir' = "none"
    /\ export_started' = FALSE
    /\ last_call' = NoCall
    /\ remembered' = NoCall
    /\ others_between' = FALSE
    /\ UNCHANGED fs

Next ==
    \/ Load
    \/ BuildPolygon
    \/ BuildFom
    \/ BuildOptimizer
    \/ BuildOpt
    \/ RunStart
    \/ Iterate
    \/ RunReturn
    \/ Save
    \/ Export
    \/ Fail
    \/ NextRun

Spec == Init /\ [][Next]_vars

(***************************************************************************)
(* The geometry function on its own: splitter is called again and again    *)
(* with parameter vectors drawn from GeomParams, and each call is          *)
(* recorded.                                                               *)
(***************************************************************************)
\* the values of the vectors splitter is called with: negative, zero, the two
\* bounds, and above the upper bound
GeomValues == {0 - YStart, 0, LowerBound, UpperBound, UpperBound + SetPointOffset}

\* the vectors splitter is called with: the default one, every vector of NumParams
\* values that is one value in its first half and one in its second, and vectors of
\* the other lengths a file may have
GeomParams ==
    {linspace(YStart, YStop, NumParams)}
    \cup {[i \in 1..NumParams |-> IF 2 * i <= NumParams THEN a ELSE b] :
             a \in GeomValues, b \in GeomValues}
    \cup {[i \in 1..n |-> YStart] :
             n \in {0, NumParams - 1} \cup (NumParams + 1)..MaxFileLen}

InitGeom ==
    /\ Init
    /\ fs["launch"] = AbsentFile

\* One call of splitter: the call is recorded, the call before it may be kept as
\* the remembered one while none is, and the module-level arrays become what the
\* call leaves.
CallSplitter ==
    \E params \in GeomParams :
        \E e \in {splitter(params)} :
            /\ last_call' = [valid |-> TRUE, arg |-> params, arg_after |-> e.params,
                             out |-> e.ret]
            /\ remembered' \in
                   IF remembered.valid \/ ~last_call.valid
                   THEN {remembered}
                   ELSE {remembered,
                         [valid |-> TRUE, arg |-> last_call.arg,
                          raised |-> last_call.out.raised,
                          polygon_points |-> last_call.out.polygon_points]}
            /\ others_between' =
                   (remembered'.valid /\ (others_between \/ params # remembered'.arg))
            /\ initial_points_x' = e.initial_points_x
            /\ initial_points_y' = e.initial_points_y
            /\ UNCHANGED <<pc, fs, cwd, prev_results, printed, read_file,
                           best_params, iter, results, steps,
                           failed_at, wrote, write_dir, export_started, run_no,
                           prev_ok, prev_best, prev_write_dir>>

NextGeom == CallSplitter

SpecGeom == InitGeom /\ [][NextGeom]_vars

(***************************************************************************)
(* Definitions the claims are stated with.                                 *)
(***************************************************************************)
\* the default parameters, 0.25e-6 to 0.6e-6 in NumParams equal steps
DefaultParams == [i \in 1..NumParams |-> YStart + ((i - 1) * (YStop - YStart)) \div (NumParams - 1)]

\* the ten knots of line 47
DefaultKnots == [i \in 1..NumParams |-> XStart + ((i - 1) * (XStop - XStart)) \div (NumParams - 1)]

\* each value of v lies within [0.2e-6, 0.8e-6]
EachWithinBounds(v) == \A i \in 1..Len(v) : LowerBound <= v[i] /\ v[i] <= UpperBound

\* reading the file raises: it is absent, or one of its tokens is no float
ReadFails(file) == ~file.exists \/ \E i \in 1..Len(file.tokens) : ~file.tokens[i].num

\* the file is there and is not NumParams floats
Malformed(file) ==
    /\ file.exists
    /\ \/ Len(file.tokens) # NumParams
       \/ \E i \in 1..Len(file.tokens) : ~file.tokens[i].num

\* the floats of a file whose tokens are all floats
Floats(file) == [i \in 1..Len(file.tokens) |-> file.tokens[i].val]

\* the term of edge i in the shoelace formula: P[i].x * P[i+1].y - P[i+1].x * P[i].y,
\* the vertex after the last being the first
Cross(P, i) ==
    LET next == IF i = Len(P) THEN 1 ELSE i + 1
    IN  P[i][1] * P[next][2] - P[next][1] * P[i][2]

\* the sum of the terms of the edges lo..hi, by halves
RECURSIVE CrossSum(_, _, _)
CrossSum(P, lo, hi) ==
    IF lo > hi
    THEN 0
    ELSE IF lo = hi
    THEN Cross(P, lo)
    ELSE LET mid == (lo + hi) \div 2
         IN  CrossSum(P, lo, mid) + CrossSum(P, mid + 1, hi)

\* twice the signed area of the closed polygon P (the shoelace formula)
Shoelace(P) == CrossSum(P, 1, Len(P))

\* s is t or a beginning of t
IsPrefix(s, t) == Len(s) <= Len(t) /\ s = SubSeq(t, 1, Len(s))

\* the place of step in StepOrder
StepIndex(step) == CHOOSE i \in 1..Len(StepOrder) : StepOrder[i] = step

\* the latest call of splitter returned
Returned == last_call.valid /\ last_call.out.raised = "none"

(***************************************************************************)
(* C1. Called with 10 parameters that all lie within the bounds, splitter  *)
(* returns, and what it returns has exactly 2 * n_interpolation_points =   *)
(* 200 vertices, whatever the values of the parameters.                    *)
(***************************************************************************)
C1_VertexCount ==
    (last_call.valid /\ Len(last_call.arg) = NumParams /\ EachWithinBounds(last_call.arg))
        => /\ last_call.out.raised = "none"
           /\ Len(last_call.out.polygon_points) = 2 * n_interpolation_points
           /\ 2 * n_interpolation_points = 200

C1_Witness ==
    /\ Returned
    /\ Len(last_call.arg) = NumParams /\ EachWithinBounds(last_call.arg)
    /\ last_call.arg # DefaultParams
    /\ Len(last_call.out.polygon_points) = 200

(***************************************************************************)
(* C2. The returned polygon is mirror-symmetric about y = 0: with N = 100, *)
(* the vertex at index i and the vertex at index 2N-1-i (counted from 0;   *)
(* i and 2N+1-i counted from 1) have the same x and y values that are the  *)
(* negation of each other.                                                 *)
(***************************************************************************)
C2_MirrorSymmetry ==
    Returned =>
        LET P == last_call.out.polygon_points
            N == n_interpolation_points
        IN  \A i \in 1..N :
                /\ P[i][1] = P[2 * N + 1 - i][1]
                /\ P[i][2] = 0 - P[2 * N + 1 - i][2]

C2_Witness ==
    /\ Returned
    /\ last_call.arg # DefaultParams
    /\ \E i \in 1..n_interpolation_points :
          /\ last_call.out.polygon_points[i][2] > 0
          /\ last_call.out.polygon_points[2 * n_interpolation_points + 1 - i][2] < 0

(***************************************************************************)
(* C3, as claimed. Whenever 2D_parameters.txt is absent or malformed, the  *)
(* initial parameters are the default vector and a notice was printed.     *)
(***************************************************************************)
C3_FallbackWheneverMalformed ==
    (pc = "polygon" /\ (~read_file.exists \/ Malformed(read_file)))
        => (prev_results = DefaultParams /\ printed = 1)

(***************************************************************************)
(* C3, amended. Whenever reading 2D_parameters.txt raises (the file is     *)
(* absent, or one of its tokens is no float), the initial parameters are   *)
(* the default vector of length 10, one notice is printed and the script   *)
(* goes on to the next step. A file that is read without an exception,     *)
(* also an empty one or one that holds another number of floats than 10,   *)
(* gives the initial parameters as it is, and no notice is printed.        *)
(***************************************************************************)
C3_FallbackOnReadFailure ==
    pc # "load" =>
        /\ steps # <<>> /\ steps[1] = "load"
        /\ failed_at # "load"
        /\ IF ReadFails(read_file)
           THEN prev_results = DefaultParams /\ Len(prev_results) = 10 /\ printed = 1
           ELSE prev_results = Floats(read_file) /\ printed = 0

C3_Witness ==
    /\ pc = "polygon"
    /\ read_file.exists
    /\ Len(read_file.tokens) = NumParams
    /\ ReadFails(read_file)
    /\ prev_results = DefaultParams
    /\ printed = 1

(***************************************************************************)
(* C4, as claimed. When the optimization is started, the initial           *)
(* parameters are exactly 10 values, each within [0.2um, 0.8um], whether   *)
(* they come from the file or from the default linear spread.              *)
(***************************************************************************)
C4_InitialParamsWithinBounds ==
    pc = "run" => (Len(prev_results) = NumParams /\ EachWithinBounds(prev_results))

(***************************************************************************)
(* C4, amended. When the optimization is started, the initial parameters   *)
(* are exactly 10 values, each within [0.2um, 0.8um], if they come from    *)
(* the default linear spread; if they come from the file they are the      *)
(* floats of the file as they stand, which the script checks neither for   *)
(* their number nor against the bounds.                                    *)
(***************************************************************************)
C4_InitialParamsAsLoaded ==
    pc = "run" =>
        IF ReadFails(read_file)
        THEN /\ Len(prev_results) = NumParams
             /\ Len(prev_results) = Len(bounds)
             /\ EachWithinBounds(prev_results)
        ELSE prev_results = Floats(read_file)

C4_Witness ==
    /\ pc = "run"
    /\ ~ReadFails(read_file)
    /\ Len(prev_results) = NumParams
    /\ prev_results = Floats(read_file)
    /\ ~EachWithinBounds(prev_results)

(***************************************************************************)
(* C5. splitter is deterministic and stateless: a call returns what an     *)
(* earlier call with the same parameter vector returned, whatever calls    *)
(* came in between, and a call changes neither its argument nor the        *)
(* module-level initial_points_x and initial_points_y.                     *)
(***************************************************************************)
C5_Deterministic ==
    /\ initial_points_x = DefaultKnots
    /\ initial_points_y = DefaultParams
    /\ last_call.valid => last_call.arg_after = last_call.arg
    /\ (last_call.valid /\ remembered.valid /\ last_call.arg = remembered.arg)
          => /\ last_call.out.raised = remembered.raised
             /\ last_call.out.polygon_points = remembered.polygon_points

C5_Witness ==
    /\ Returned
    /\ remembered.valid
    /\ last_call.arg = remembered.arg
    /\ others_between
    /\ last_call.out.polygon_points = remembered.polygon_points

(***************************************************************************)
(* C6. The steps of a run are taken once each and in one order: load,      *)
(* polygon, figure of merit, optimizer, optimization, run, save, export.   *)
(* The parameters file is not written before the run has returned, and     *)
(* the export does not start before the file has been written.             *)
(***************************************************************************)
C6_LinearOrder ==
    /\ IsPrefix(steps, StepOrder)
    /\ pc = "done" => steps = StepOrder
    /\ pc \notin {"done", "aborted"} => StepAt(pc) = StepOrder[Len(steps) + 1]
    /\ wrote => (Len(steps) >= StepIndex("run") /\ results # <<>>)
    /\ export_started => (wrote /\ Len(steps) >= StepIndex("save"))
    /\ Len(steps) >= StepIndex("save") => wrote

C6_Witness ==
    /\ pc = "done"
    /\ steps = StepOrder
    /\ wrote
    /\ export_started

(***************************************************************************)
(* C7, as claimed. A run that follows a run which ran to its end starts    *)
(* from the parameter vector that run saved.                               *)
(***************************************************************************)
C7_NextRunReusesBest ==
    (run_no > 1 /\ prev_ok /\ pc = "polygon") => prev_results = prev_best

(***************************************************************************)
(* C7, amended. The script saves to '../2D_parameters.txt' and reads       *)
(* '2D_parameters.txt', both relative to the working directory of the      *)
(* moment. A run that follows a run which ran to its end starts from the   *)
(* vector that run saved if that run saved it from a folder directly       *)
(* below the directory the script is started in (the engine had moved the  *)
(* process into such a working folder). Saved from any other directory,    *)
(* the vector lies in a file the next run does not read: that run reads    *)
(* the file of the starting directory, as the previous run left it.        *)
(***************************************************************************)
C7_NextRunReusesBestFromSubfolder ==
    (run_no > 1 /\ prev_ok /\ pc # "load") =>
        /\ prev_write_dir \in Dirs
        /\ prev_write_dir = "launch" =>
              /\ read_file = File([i \in 1..Len(prev_best) |-> Num(prev_best[i])])
              /\ prev_results = prev_best
              /\ printed = 0
        /\ (prev_write_dir # "launch" /\ ~wrote) =>
              /\ fs[prev_write_dir] = File([i \in 1..Len(prev_best) |-> Num(prev_best[i])])
              /\ read_file = fs["launch"]
              /\ prev_results = IF ReadFails(read_file) THEN DefaultParams
                                ELSE Floats(read_file)

C7_Witness ==
    /\ run_no = 2
    /\ prev_ok
    /\ prev_write_dir = "launch"
    /\ pc = "polygon"
    /\ prev_results = prev_best
    /\ prev_best # DefaultParams

(***************************************************************************)
(* C8. The only failure the script recovers from is the failed read of     *)
(* the parameters file. A failure in a later step ends the script at that  *)
(* step: no later step is taken, so a failed optimization run writes no    *)
(* parameters file and exports nothing.                                    *)
(***************************************************************************)
C8_NoRecovery ==
    /\ pc # "aborted" => failed_at = "none"
    /\ pc = "aborted" =>
          /\ failed_at \in Range(StepOrder) \ {"load"}
          /\ steps = SubSeq(StepOrder, 1, StepIndex(failed_at) - 1)
    /\ failed_at = "run" => (~wrote /\ ~export_started /\ results = <<>>)
    /\ failed_at \in {"polygon", "fom", "optimizer", "opt", "run", "save"}
          => ~export_started
    /\ printed > 0 => (ReadFails(read_file) /\ printed = 1)

C8_Witness ==
    /\ pc = "aborted"
    /\ failed_at = "run"
    /\ iter > 0
    /\ ~wrote
    /\ ~export_started

(***************************************************************************)
(* C9. The returned vertices are in counter-clockwise order: the upper     *)
(* branch runs from x_max to x_min with x strictly decreasing, the lower   *)
(* branch follows from x_min to x_max with x strictly increasing, and      *)
(* whenever the interpolated y values are all positive the signed          *)
(* (shoelace) area of the vertex sequence is positive.                     *)
(***************************************************************************)
C9_CounterClockwise ==
    Returned =>
        LET P == last_call.out.polygon_points
            N == n_interpolation_points
            x_min == Min(last_call.out.points_x)
            x_max == Max(last_call.out.points_x)
        IN  /\ P[1][1] = x_max /\ P[N][1] = x_min
            /\ \A i \in 1..(N - 1) : P[i + 1][1] < P[i][1]
            /\ P[N + 1][1] = x_min /\ P[2 * N][1] = x_max
            /\ \A i \in (N + 1)..(2 * N - 1) : P[i + 1][1] > P[i][1]
            /\ (\A i \in 1..N : P[i][2] > 0) => Shoelace(P) > 0

C9_Witness ==
    /\ Returned
    /\ last_call.arg # DefaultParams
    /\ \A i \in 1..n_interpolation_points : last_call.out.polygon_points[i][2] > 0
    /\ Shoelace(last_call.out.polygon_points) > 0

(***************************************************************************)
(* C10. The interpolation domain is the span of the two fixed boundary     *)
(* points: the knots are the parameters with one fixed point before and    *)
(* one after them (12 for 10 parameters), each of the 100 sampled x lies   *)
(* within [min(points_x), max(points_x)], the first and the last sampled   *)
(* x are the two boundary knots, and the interpolator is never evaluated   *)
(* outside its knots, whatever the parameter vector.                       *)
(***************************************************************************)
C10_NoExtrapolation ==
    last_call.valid =>
        LET o == last_call.out
            at == o.polygon_points_x
            lo == Min(o.points_x)
            hi == Max(o.points_x)
        IN  /\ o.points_x = <<XStart - SetPointOffset>> \o DefaultKnots
                               \o <<XStop + SetPointOffset>>
            /\ o.points_y = <<YStart>> \o last_call.arg \o <<YStop>>
            /\ Len(last_call.arg) = 10 => (Len(o.points_x) = 12 /\ Len(o.points_y) = 12)
            /\ Len(at) = 100
            /\ \A j \in 1..Len(at) : lo <= at[j] /\ at[j] <= hi
            /\ at[1] = o.points_x[1]
            /\ at[Len(at)] = o.points_x[Len(o.points_x)]
            /\ o.raised # "range"
            /\ o.raised = "none" =>
                  \A i \in 1..Len(at) : o.polygon_points[Len(at) + i][1] = at[i]

C10_Witness ==
    /\ Returned
    /\ last_call.arg # DefaultParams
    /\ Len(last_call.out.points_y) = 12
    /\ last_call.out.polygon_points_x[1] = XStart - SetPointOffset
    /\ last_call.out.polygon_points_x[n_interpolation_points] = XStop + SetPointOffset

====
